---- MODULE Spec2Model ----
(***************************************************************************)
(* Model of the ORCA coordinate cutter: grid_selector, create_dataset and  *)
(* the extent arithmetic of main.                                          *)
(*                                                                         *)
(* An array is a record [rows, cols, v]: its numpy shape and its values,   *)
(* v[i][j] with i \in 1..rows and j \in 1..cols (position p of the Python  *)
(* array is index p+1 here).  Slice arguments and extents keep the         *)
(* Python values (0-based, negative values allowed).                       *)
(***************************************************************************)
EXTENDS Integers, Sequences, FiniteSets, TLC

VARIABLES pcf, extent, call, result, sel_log, locals, fs

vars == <<pcf, extent, call, result, sel_log, locals, fs>>

----------------------------------------------------------------------------
(* Module constants of the script *)

PACIFIC_Y_INDICES == <<7550, -2>>
ATLANTIC_Y_INDICES == <<7350, -1>>
PACIFIC_X_INDICES == <<1500, 5900>>

T_VARS == <<"nav_lon", "nav_lat", "glamt", "gphit", "e1t", "e2t">>
U_VARS == <<"glamu", "gphiu", "e1u", "e2u">>
V_VARS == <<"glamv", "gphiv", "e1v", "e2v">>
F_VARS == <<"glamf", "gphif", "e1f", "e2f">>

(* T_VARS + U_VARS + V_VARS + F_VARS, the iteration order of create_dataset *)
ALL_VARS == T_VARS \o U_VARS \o V_VARS \o F_VARS

(* `var in LIST` *)
In(var, list) == \E k \in 1..Len(list) : list[k] = var

----------------------------------------------------------------------------
(* Bounds of the model *)

(* largest extent of an axis of the small parent grids *)
MaxDim == 3

(* number of column counts, beyond the first, tried by main *)
MaxXSpan == 59

(* A field of the parent file that belongs to no family list. *)
OTHER_VAR == "nav_lev"

NAMES == {ALL_VARS[k] : k \in 1..Len(ALL_VARS)} \cup {OTHER_VAR}

(* The sets of names the parent file may lack. *)
MissingChoices == {{}, {"e2t", "e2f"}, {"glamv", OTHER_VAR}}

(* The names grid_selector is called with: names of every family list, the *)
(* names the parent file may lack among them, and the field of no family.  *)
CallVars == {"nav_lon", "e2t", "glamu", "glamv", "e2f", OTHER_VAR}

(* Shapes of the small parent grids (ny, nx). *)
Dims == {<<MaxDim - 1, MaxDim>>, <<MaxDim, MaxDim - 1>>}

(* Values an extent bound may take: below the first index, inside, past the end. *)
Bound == -1..MaxDim

----------------------------------------------------------------------------
(* The parent grid *)

VarIndex(var) == CHOOSE k \in 0..Len(ALL_VARS) :
                    IF In(var, ALL_VARS) THEN k > 0 /\ ALL_VARS[k] = var ELSE k = 0

(* Value of field var at position (r, c): every cell of every field is distinct, *)
(* so a selection is determined by the values it returns.                       *)
Cell(var, r, c) == VarIndex(var) * 100 + r * 10 + c

FieldData(var, ny, nx) ==
    [rows |-> ny, cols |-> nx,
     v |-> [i \in 1..ny |-> [j \in 1..nx |-> Cell(var, i - 1, j - 1)]]]

(* An opened and squeezed dataset: its dimension sizes, whether the y and x   *)
(* dimensions carry index coordinates (labels 0..n-1) and its 2-D fields.     *)
Dataset0(ny, nx, indexed, missing) ==
    [ny |-> ny, nx |-> nx, indexed |-> indexed,
     data |-> [var \in NAMES \ missing |-> FieldData(var, ny, nx)]]

(* `var in pcf` *)
Contains(p, var) == var \in DOMAIN p.data

----------------------------------------------------------------------------
(* .sel(y=slice(a, b), x=slice(c, d)) *)

Max(a, b) == IF a >= b THEN a ELSE b
Min(a, b) == IF a <= b THEN a ELSE b

(* Python's normalisation of a slice bound k on an axis of length n *)
Norm(k, n) == IF k < 0 THEN Max(k + n, 0) ELSE Min(k, n)

(* First selected position (0-based) of slice(a, b) on an axis of length n.   *)
(* A dimension without an index is sliced by position, half-open, negative    *)
(* bounds counted from the end; a dimension with an index is sliced by label, *)
(* both ends included.                                                        *)
SliceFirst(a, b, n, indexed) == IF indexed THEN Max(a, 0) ELSE Norm(a, n)

(* Number of positions selected by slice(a, b) *)
SliceCount(a, b, n, indexed) ==
    IF indexed THEN Max(0, Min(b, n - 1) - Max(a, 0) + 1)
               ELSE Max(0, Norm(b, n) - Norm(a, n))

(* arr.sel(y=slice(s[1], s[2]), x=slice(s[3], s[4])).values *)
sel(arr, s, indexed) ==
    LET r0 == SliceFirst(s[1], s[2], arr.rows, indexed)
        nr == SliceCount(s[1], s[2], arr.rows, indexed)
        c0 == SliceFirst(s[3], s[4], arr.cols, indexed)
        nc == SliceCount(s[3], s[4], arr.cols, indexed)
    IN [rows |-> nr, cols |-> nc,
        v |-> [i \in 1..nr |-> [j \in 1..nc |-> arr.v[r0 + i][c0 + j]]]]

(* np.flip(a) with axis=None: the order of the elements is reversed along every axis *)
RECURSIVE Reverse(_)
Reverse(s) == IF s = <<>> THEN <<>> ELSE Reverse(Tail(s)) \o <<Head(s)>>

(* Variant of flip: the rows alone are reversed (np.flipud) *)
flip_RowsOnly(arr) ==
    [rows |-> arr.rows, cols |-> arr.cols, v |-> Reverse(arr.v)]

flip(arr) ==
    LET rev == Reverse(arr.v)
    IN [rows |-> arr.rows, cols |-> arr.cols,
        v |-> [i \in 1..arr.rows |-> Reverse(rev[i])]]

----------------------------------------------------------------------------
(* grid_selector *)

(* Variant of sel_slices: the family offsets are applied whatever the flag *)
sel_slices_OffsetsAlways(var, ext, pac_patch) ==
    IF In(var, U_VARS) THEN <<ext[1], ext[2], ext[3] - 1, ext[4] - 1>>
    ELSE IF In(var, V_VARS) THEN <<ext[1] - 1, ext[2] - 1, ext[3], ext[4]>>
    ELSE IF In(var, F_VARS) THEN <<ext[1] - 1, ext[2] - 1, ext[3] - 1, ext[4] - 1>>
    ELSE IF pac_patch /\ ~In(var, T_VARS) THEN <<>>
    ELSE <<ext[1], ext[2], ext[3], ext[4]>>

(* Variant of sel_slices: the offsets of U_VARS and V_VARS are exchanged *)
sel_slices_SwapUV(var, ext, pac_patch) ==
    IF pac_patch
    THEN IF In(var, T_VARS) THEN <<ext[1], ext[2], ext[3], ext[4]>>
         ELSE IF In(var, U_VARS) THEN <<ext[1] - 1, ext[2] - 1, ext[3], ext[4]>>
         ELSE IF In(var, V_VARS) THEN <<ext[1], ext[2], ext[3] - 1, ext[4] - 1>>
         ELSE IF In(var, F_VARS) THEN <<ext[1] - 1, ext[2] - 1, ext[3] - 1, ext[4] - 1>>
         ELSE <<>>
    ELSE <<ext[1], ext[2], ext[3], ext[4]>>

(* The slice arguments grid_selector passes to .sel, <<y0, y1, x0, x1>>;      *)
(* <<>> when no branch of the Pacific if/elif chain is taken.                 *)
sel_slices(var, ext, pac_patch) ==
    IF pac_patch
    THEN IF In(var, T_VARS) THEN <<ext[1], ext[2], ext[3], ext[4]>>
         ELSE IF In(var, U_VARS) THEN <<ext[1], ext[2], ext[3] - 1, ext[4] - 1>>
         ELSE IF In(var, V_VARS) THEN <<ext[1] - 1, ext[2] - 1, ext[3], ext[4]>>
         ELSE IF In(var, F_VARS) THEN <<ext[1] - 1, ext[2] - 1, ext[3] - 1, ext[4] - 1>>
         ELSE <<>>
    ELSE <<ext[1], ext[2], ext[3], ext[4]>>

(* Variant of ValueError: the message does not name the variable *)
ValueError_NoName(var) ==
    [kind |-> "raise", exc |-> "ValueError", msg |-> <<"Variable not found in the dataset.">>]

ValueError(var) ==
    [kind |-> "raise", exc |-> "ValueError",
     msg |-> <<"Variable ", var, " not found in the dataset.">>]

(* `return grid_array` with grid_array never assigned *)
UnboundLocalError == [kind |-> "raise", exc |-> "UnboundLocalError", msg |-> <<"grid_array">>]

(* The post-selection step: np.flip for the Pacific patch, nothing for the Atlantic *)
orient(arr, pac_patch) == IF pac_patch THEN flip(arr) ELSE arr

(* out: what the call returns or raises; sels: the .sel calls it made *)
grid_selector(p, var, ext, pac_patch) ==
    IF ~Contains(p, var)
    THEN [out |-> ValueError(var), sels |-> <<>>]
    ELSE LET s == sel_slices(var, ext, pac_patch)
         IN IF s = <<>>
            THEN [out |-> UnboundLocalError, sels |-> <<>>]
            ELSE [out |-> [kind |-> "array",
                           array |-> orient(sel(p.data[var], s, p.indexed), pac_patch)],
                  sels |-> <<s>>]

----------------------------------------------------------------------------
(* create_dataset *)

Shape(arr) == <<arr.rows, arr.cols>>

(* xr.Dataset(data_vars), every variable on dims ["y", "x"]: the sizes of a   *)
(* dimension must agree across the variables.                                 *)
XrDataset(data_vars) ==
    IF \A a, b \in DOMAIN data_vars : Shape(data_vars[a]) = Shape(data_vars[b])
    THEN [kind |-> "dataset", dims |-> <<"y", "x">>, data_vars |-> data_vars]
    ELSE [kind |-> "raise", exc |-> "ValueError", msg |-> <<"conflicting sizes for dimension">>]

(* Variant of create_dataset_from: a name the parent grid lacks is skipped *)
RECURSIVE create_dataset_from_SkipMissing(_, _, _, _, _, _)
create_dataset_from_SkipMissing(p, ext, pac_patch, k, data_vars, sels) ==
    IF k > Len(ALL_VARS)
    THEN [out |-> XrDataset(data_vars), sels |-> sels]
    ELSE LET var == ALL_VARS[k]
             r == grid_selector(p, var, ext, pac_patch)
         IN IF r.out.kind = "raise"
            THEN create_dataset_from_SkipMissing(p, ext, pac_patch, k + 1, data_vars, sels)
            ELSE create_dataset_from_SkipMissing(p, ext, pac_patch, k + 1,
                                                 data_vars @@ (var :> r.out.array),
                                                 sels \o r.sels)

(* The for loop from its k-th name on, data_vars and sels being what the      *)
(* earlier iterations built.                                                  *)
RECURSIVE create_dataset_from(_, _, _, _, _, _)
create_dataset_from(p, ext, pac_patch, k, data_vars, sels) ==
    IF k > Len(ALL_VARS)
    THEN [out |-> XrDataset(data_vars), sels |-> sels]
    ELSE LET var == ALL_VARS[k]
             r == grid_selector(p, var, ext, pac_patch)
         IN IF r.out.kind = "raise"
            THEN [out |-> r.out, sels |-> sels \o r.sels]
            ELSE create_dataset_from(p, ext, pac_patch, k + 1,
                                     data_vars @@ (var :> r.out.array), sels \o r.sels)

(* Variant of create_dataset: the loop misses the first name *)
create_dataset_SkipFirst(p, ext, pac_patch) == create_dataset_from(p, ext, pac_patch, 2, <<>>, <<>>)

create_dataset(p, ext, pac_patch) == create_dataset_from(p, ext, pac_patch, 1, <<>>, <<>>)

----------------------------------------------------------------------------
(* main.  The parent file of main has the size of the ORCA36 grid, so its   *)
(* fields are carried by their shapes alone ([rows, cols], no values) and   *)
(* the selections of main are followed at the level of shapes.              *)

BigDataset(ny, nx, indexed, missing) ==
    [ny |-> ny, nx |-> nx, indexed |-> indexed,
     data |-> [var \in NAMES \ missing |-> [rows |-> ny, cols |-> nx]]]

(* Shape of the array grid_selector returns for a field of the families *)
selected_shape(p, var, ext, pac_patch) ==
    LET s == sel_slices(var, ext, pac_patch)
    IN <<SliceCount(s[1], s[2], p.data[var].rows, p.indexed),
         SliceCount(s[3], s[4], p.data[var].cols, p.indexed)>>

(* create_dataset with the arrays replaced by their shapes *)
create_dataset_shape(p, ext, pac_patch) ==
    IF \E k \in 1..Len(ALL_VARS) : ~Contains(p, ALL_VARS[k])
    THEN LET k == CHOOSE i \in 1..Len(ALL_VARS) :
                     /\ ~Contains(p, ALL_VARS[i])
                     /\ \A j \in 1..(i - 1) : Contains(p, ALL_VARS[j])
         IN ValueError(ALL_VARS[k])
    ELSE LET shapes == {selected_shape(p, ALL_VARS[k], ext, pac_patch) : k \in 1..Len(ALL_VARS)}
         IN IF Cardinality(shapes) = 1
            THEN [kind |-> "dataset", dims |-> <<"y", "x">>, shape |-> CHOOSE sh \in shapes : TRUE]
            ELSE [kind |-> "raise", exc |-> "ValueError",
                  msg |-> <<"conflicting sizes for dimension">>]

(* xr.concat([a, b], dim='y') of two datasets without coordinates: the x    *)
(* sizes must agree.                                                        *)
concat_y(a, b) ==
    IF a.shape[2] = b.shape[2]
    THEN [kind |-> "dataset", dims |-> <<"y", "x">>,
          shape |-> <<a.shape[1] + b.shape[1], a.shape[2]>>]
    ELSE [kind |-> "raise", exc |-> "ValueError",
          msg |-> <<"conflicting dimension sizes">>]

(* The locals of main up to the two extents *)
main_extents(p) ==
    LET size == p.nx
        x_middle == size \div 2
        atl_first_xind == PACIFIC_X_INDICES[2] + (x_middle - PACIFIC_X_INDICES[2]) * 2 + 1
        atl_last_xind == size - PACIFIC_X_INDICES[1] + 1
    IN [set |-> TRUE, x_middle |-> x_middle,
        atl_first_xind |-> atl_first_xind, atl_last_xind |-> atl_last_xind,
        atl_extent |-> <<ATLANTIC_Y_INDICES[1], ATLANTIC_Y_INDICES[2],
                         atl_first_xind, atl_last_xind>>,
        pac_extent |-> <<PACIFIC_Y_INDICES[1], PACIFIC_Y_INDICES[2],
                         PACIFIC_X_INDICES[1], PACIFIC_X_INDICES[2]>>]

(* main from the two create_dataset calls on: [out, fs], what main ends     *)
(* with and the file system it leaves.                                      *)
main_run(p, l, f) ==
    LET atl_dataset == create_dataset_shape(p, l.atl_extent, FALSE)
        pac_dataset == create_dataset_shape(p, l.pac_extent, TRUE)
        whole_dataset == concat_y(atl_dataset, pac_dataset)
    IN IF atl_dataset.kind = "raise" THEN [out |-> atl_dataset, fs |-> f]
       ELSE IF pac_dataset.kind = "raise" THEN [out |-> pac_dataset, fs |-> f]
       ELSE IF whole_dataset.kind = "raise" THEN [out |-> whole_dataset, fs |-> f]
       ELSE [out |-> [kind |-> "written", atl |-> atl_dataset.shape,
                      pac |-> pac_dataset.shape, whole |-> whole_dataset.shape],
             fs |-> [dir_exists |-> TRUE, file_written |-> TRUE]]

----------------------------------------------------------------------------
(* State machine of the calls on a small parent grid *)

NoResult == [kind |-> "none"]
NoLocals == [set |-> FALSE]
NoFs == [dir_exists |-> FALSE, file_written |-> FALSE]

(* The calls a caller may make: grid_selector(pcf, var, extent, pac_patch) *)
(* and create_dataset(pcf, extent, pac_patch).                             *)
Calls ==
    [op : {"grid_selector"}, var : CallVars, pac_patch : BOOLEAN]
    \cup [op : {"create_dataset"}, var : {""}, pac_patch : BOOLEAN]

(* The caller holds a parent grid, an extent list and the call it makes;   *)
(* nothing has been called yet.                                            *)
Init ==
    /\ \E d \in Dims, indexed \in BOOLEAN, missing \in MissingChoices :
          pcf = Dataset0(d[1], d[2], indexed, missing)
    /\ extent \in Bound \X Bound \X Bound \X Bound
    /\ call \in Calls
    /\ result = NoResult
    /\ sel_log = <<>>
    /\ locals = NoLocals
    /\ fs = NoFs

(* Variant of GridSelectorCall: the offsets are written into the caller's extent list *)
GridSelectorCall_WritesExtent ==
    /\ call.op = "grid_selector"
    /\ LET r == grid_selector(pcf, call.var, extent, call.pac_patch)
       IN /\ result' = r.out
          /\ sel_log' = r.sels
          /\ extent' = IF r.sels = <<>> THEN extent ELSE r.sels[1]
    /\ UNCHANGED <<pcf, call, locals, fs>>

GridSelectorCall ==
    /\ call.op = "grid_selector"
    /\ LET r == grid_selector(pcf, call.var, extent, call.pac_patch)
       IN /\ result' = r.out
          /\ sel_log' = r.sels
    /\ UNCHANGED <<pcf, extent, call, locals, fs>>

CreateDatasetCall ==
    /\ call.op = "create_dataset"
    /\ LET r == create_dataset(pcf, extent, call.pac_patch)
       IN /\ result' = r.out
          /\ sel_log' = r.sels
    /\ UNCHANGED <<pcf, extent, call, locals, fs>>

Next == GridSelectorCall \/ CreateDatasetCall

Spec == Init /\ [][Next]_vars

----------------------------------------------------------------------------
(* State machine of the script run on an ORCA36-sized parent file *)

(* Column counts of the parent file tried by main *)
MainXSizes == 12930..(12930 + MaxXSpan)

InitMain ==
    /\ \E nx \in MainXSizes, indexed \in BOOLEAN, missing \in MissingChoices :
          pcf = BigDataset(9173, nx, indexed, missing)
    /\ extent = <<>>
    /\ call = [op |-> "main", var |-> "", pac_patch |-> FALSE]
    /\ result = NoResult
    /\ sel_log = <<>>
    /\ locals = NoLocals
    /\ fs \in [dir_exists : BOOLEAN, file_written : {FALSE}]

MainCall ==
    /\ call.op = "main"
    /\ LET l == main_extents(pcf)
           r == main_run(pcf, l, fs)
       IN /\ locals' = l
          /\ result' = r.out
          /\ fs' = r.fs
    /\ UNCHANGED <<pcf, extent, call, sel_log>>

NextMain == MainCall

SpecMain == InitMain /\ [][NextMain]_vars

----------------------------------------------------------------------------
(* Vocabulary of the properties *)

(* The call has been made *)
Done == result # NoResult

GridSelectorDone == call.op = "grid_selector" /\ Done
CreateDatasetDone == call.op = "create_dataset" /\ Done

(* The positions (0-based) of an axis of length n that slice(a, b) selects:   *)
(* by position the window is half-open and a negative bound counts from the   *)
(* end, by label both ends belong to it.                                      *)
Selected(a, b, n, indexed) ==
    IF indexed
    THEN {q \in 0..(n - 1) : a <= q /\ q <= b}
    ELSE {q \in 0..(n - 1) : /\ (IF a < 0 THEN a + n ELSE a) <= q
                             /\ q < (IF b < 0 THEN b + n ELSE b)}

(* Least element of a set of positions, 0 for the empty set *)
Least(S) == IF S = {} THEN 0 ELSE CHOOSE q \in S : \A t \in S : q <= t

(* The families of the staggered grid and their offsets <<row, column>> *)
Family(var) ==
    IF In(var, T_VARS) THEN "Center"
    ELSE IF In(var, U_VARS) THEN "EastFace"
    ELSE IF In(var, V_VARS) THEN "NorthFace"
    ELSE IF In(var, F_VARS) THEN "Corner"
    ELSE "None"

Offset(family) ==
    CASE family = "Center" -> <<0, 0>>
      [] family = "EastFace" -> <<0, -1>>
      [] family = "NorthFace" -> <<-1, 0>>
      [] family = "Corner" -> <<-1, -1>>

(* The window of the Pacific policy for a field of a family *)
PacificWindow(var, ext) ==
    LET o == Offset(Family(var))
    IN <<ext[1] + o[1], ext[2] + o[1], ext[3] + o[2], ext[4] + o[2]>>

ConfiguredNames ==
    {T_VARS[k] : k \in DOMAIN T_VARS} \cup {U_VARS[k] : k \in DOMAIN U_VARS}
    \cup {V_VARS[k] : k \in DOMAIN V_VARS} \cup {F_VARS[k] : k \in DOMAIN F_VARS}

(* The values of an array, as a set *)
Values(arr) == {arr.v[i][j] : i \in 1..arr.rows, j \in 1..arr.cols}

(* arr has the shape of window w of field f and holds its elements in order *)
IsWindow(arr, f, w, indexed) ==
    LET R == Selected(w[1], w[2], f.rows, indexed)
        C == Selected(w[3], w[4], f.cols, indexed)
    IN /\ arr.rows = Cardinality(R)
       /\ arr.cols = Cardinality(C)
       /\ \A i \in 1..arr.rows, j \in 1..arr.cols :
             arr.v[i][j] = f.v[Least(R) + i][Least(C) + j]

(* arr has the shape of window w of field f and holds it reversed along both axes *)
IsReversedWindow(arr, f, w, indexed) ==
    LET R == Selected(w[1], w[2], f.rows, indexed)
        C == Selected(w[3], w[4], f.cols, indexed)
    IN /\ arr.rows = Cardinality(R)
       /\ arr.cols = Cardinality(C)
       /\ \A i \in 1..arr.rows, j \in 1..arr.cols :
             arr.v[i][j] = f.v[Least(R) + (arr.rows + 1 - i)][Least(C) + (arr.cols + 1 - j)]

----------------------------------------------------------------------------
(* C1: with pac_patch=False grid_selector returns, for a present field of any *)
(* family and any extent, the parent field's window rows [e0:e1], columns     *)
(* [e2:e3]: no family offset, element order unchanged.                        *)
C1_AtlanticWindow ==
    (GridSelectorDone /\ ~call.pac_patch /\ Contains(pcf, call.var)) =>
        /\ result.kind = "array"
        /\ IsWindow(result.array, pcf.data[call.var], extent, pcf.indexed)

C1_Witness ==
    /\ GridSelectorDone /\ ~call.pac_patch
    /\ Family(call.var) = "Corner"
    /\ result.kind = "array"
    /\ result.array.rows >= 1 /\ result.array.cols >= 1
    /\ result.array.rows + result.array.cols >= 3
    /\ extent[1] >= 1 /\ extent[3] >= 1

(* C2: with pac_patch=True the window sliced from the parent field is the     *)
(* extent moved by the family's offset: Center (0, 0), EastFace (0, -1),      *)
(* NorthFace (-1, 0), Corner (-1, -1); the .sel call is made with these       *)
(* bounds and the result holds exactly the elements of that window.  An       *)
(* EastFace field with extent (10, 20, 30, 40) is sliced at rows [10:20],     *)
(* columns [29:39].                                                           *)
C2_PacificOffsets ==
    /\ sel_slices("glamu", <<10, 20, 30, 40>>, TRUE) = <<10, 20, 29, 39>>
    /\ (GridSelectorDone /\ call.pac_patch /\ Contains(pcf, call.var)
            /\ Family(call.var) # "None") =>
          LET w == PacificWindow(call.var, extent)
              f == pcf.data[call.var]
          IN /\ sel_log = <<w>>
             /\ result.kind = "array"
             /\ Values(result.array) =
                   {f.v[r + 1][c + 1] : r \in Selected(w[1], w[2], f.rows, pcf.indexed),
                                        c \in Selected(w[3], w[4], f.cols, pcf.indexed)}

C2_Witness ==
    /\ GridSelectorDone /\ call.pac_patch
    /\ Family(call.var) = "Corner"
    /\ result.kind = "array"
    /\ result.array.rows >= 1 /\ result.array.cols >= 1
    /\ sel_log = <<<<extent[1] - 1, extent[2] - 1, extent[3] - 1, extent[4] - 1>>>>

(* C3: with pac_patch=True the array returned for a field of the four         *)
(* families has the shape (R, C) of the offset window W and is W reversed     *)
(* along both axes: result[i][j] = W[R-1-i][C-1-j].                           *)
C3_PacificReversed ==
    (GridSelectorDone /\ call.pac_patch /\ Contains(pcf, call.var)
        /\ Family(call.var) # "None") =>
        /\ result.kind = "array"
        /\ IsReversedWindow(result.array, pcf.data[call.var],
                            PacificWindow(call.var, extent), pcf.indexed)

C3_Witness ==
    /\ GridSelectorDone /\ call.pac_patch
    /\ Family(call.var) = "NorthFace"
    /\ result.kind = "array"
    /\ result.array.rows >= 2 /\ result.array.cols >= 2
    /\ result.array.v[1][1] > result.array.v[2][1]
    /\ result.array.v[1][1] > result.array.v[1][2]

InRange(ext, p) ==
    /\ 0 <= ext[1] /\ ext[1] <= ext[2] /\ ext[2] <= p.ny - 1
    /\ 0 <= ext[3] /\ ext[3] <= ext[4] /\ ext[4] <= p.nx - 1

(* C5: for an extent within the index range of the parent grid, a bound at    *)
(* the first index included, and either flag, create_dataset produces fields  *)
(* that all have the row and column counts of the requested window.           *)
C5_SameShape ==
    (CreateDatasetDone /\ ConfiguredNames \subseteq DOMAIN pcf.data /\ InRange(extent, pcf)) =>
        /\ result.kind = "dataset"
        /\ \A var \in DOMAIN result.data_vars :
              /\ result.data_vars[var].rows =
                    Cardinality(Selected(extent[1], extent[2], pcf.ny, pcf.indexed))
              /\ result.data_vars[var].cols =
                    Cardinality(Selected(extent[3], extent[4], pcf.nx, pcf.indexed))

(* C6: for a name absent from the parent grid, either flag and any extent,    *)
(* grid_selector raises the unknown-field error (ValueError) with the name in *)
(* its message, before any slicing is attempted.                              *)
C6_UnknownField ==
    (GridSelectorDone /\ ~Contains(pcf, call.var)) =>
        /\ result.kind = "raise"
        /\ result.exc = "ValueError"
        /\ \E k \in DOMAIN result.msg : result.msg[k] = call.var
        /\ sel_log = <<>>

C6_Witness ==
    /\ GridSelectorDone /\ call.pac_patch
    /\ ~Contains(pcf, call.var)
    /\ Family(call.var) = "NorthFace"
    /\ result.kind = "raise"

(* The first configured name, in the order T_VARS, U_VARS, V_VARS, F_VARS,    *)
(* that the parent grid lacks.                                                *)
AbsentNames == ConfiguredNames \ DOMAIN pcf.data

FirstAbsent ==
    LET order == T_VARS \o U_VARS \o V_VARS \o F_VARS
        k == CHOOSE i \in DOMAIN order :
                /\ order[i] \in AbsentNames
                /\ \A j \in DOMAIN order : order[j] \in AbsentNames => i <= j
    IN order[k]

(* C7: if a configured name is absent from the parent grid, create_dataset    *)
(* fails with the error grid_selector raises for the first absent name in the *)
(* order T_VARS, U_VARS, V_VARS, F_VARS, and returns no dataset: the fields   *)
(* extracted before it are not returned.                                      *)
C7_NoPartialResult ==
    (CreateDatasetDone /\ AbsentNames # {}) =>
        /\ result.kind = "raise"
        /\ result.exc = "ValueError"
        /\ result.msg = <<"Variable ", FirstAbsent, " not found in the dataset.">>
        /\ "data_vars" \notin DOMAIN result

C7_Witness ==
    /\ CreateDatasetDone
    /\ Cardinality(AbsentNames) >= 2
    /\ result.kind = "raise"
    /\ Len(sel_log) >= 1

(* C8: no call changes the parent grid or the caller's extent list, whether   *)
(* it returns or raises.                                                      *)
C8_ParentUnchanged == [][pcf' = pcf /\ extent' = extent]_vars

C8_Witness ==
    /\ GridSelectorDone /\ call.pac_patch
    /\ Family(call.var) = "NorthFace"
    /\ result.kind = "array"
    /\ result.array.rows >= 1 /\ result.array.cols >= 1
    /\ pcf = Dataset0(pcf.ny, pcf.nx, pcf.indexed, NAMES \ DOMAIN pcf.data)

(* C9: for every column count N of the parent grid, even or odd, the Atlantic *)
(* extent main computes has the column span of the Pacific extent:            *)
(* atl_last_xind - atl_first_xind = P1 - P0.                                  *)
C9_EqualSpan ==
    locals.set =>
        locals.atl_last_xind - locals.atl_first_xind
            = PACIFIC_X_INDICES[2] - PACIFIC_X_INDICES[1]

(* C10: for a name present in the parent grid, in a family list or not, and   *)
(* either flag, grid_selector returns a 2-D array; the unknown-field error is *)
(* the only error it raises.                                                  *)
C10_PresentFieldReturns ==
    (GridSelectorDone /\ Contains(pcf, call.var)) => result.kind = "array"

====
